---- MODULE Spec2Model ----
(***************************************************************************)
(* Model of the inline-connect scan of browse.py: the insight parser, the  *)
(* two-step actuator (__send_connect_inline), the eligibility gate         *)
(* (send_connect_inline) and the collector (get_search_results), driven    *)
(* against a browser session whose answers are chosen nondeterministically *)
(* at the moment each lookup, read or click is issued.                     *)
(***************************************************************************)
EXTENDS Integers, Sequences, FiniteSets, TLC

\* ------------------------------------------------------------------ bounds
MaxCards == 3
MaxLen == 3

\* -------------------------------------------------------- program constants
MIN_MUTUAL_CONNECTIONS_TO_SEND_CONNECT == 10

\* --------------------------------------------------------------- alphabets
Digits == {"0", "1", "3", "5", "9"}
Alphabet == Digits \cup {"k", "-"}

DigitValue(c) ==
    CASE c = "0" -> 0
      [] c = "1" -> 1
      [] c = "3" -> 3
      [] c = "5" -> 5
      [] c = "9" -> 9
      [] OTHER -> 0

\* All strings (sequences of characters) of length at most n over Alphabet.
StringsUpTo(n) == UNION {[1..k -> Alphabet] : k \in 0..n}

\* Insight texts a card of the search page may show during a scan.
ScanTexts == { <<"5">>, <<"1", "5">> }

\* Insight texts on either side of the threshold.
ThresholdTexts == { <<"9">>, <<"1", "0">> }

\* Insight texts with no number and with two numbers.
UnparseableTexts == { <<"k">>, <<"1", "k", "5">> }

\* href values a card's profile anchor may carry ("" stands for a falsy href).
Hrefs == {"", "/in/a", "/in/b"}

\* The variety of answers is graded by the length of the page: pages of up to
\* two cards are explored with every text and href above, longer pages with
\* the parseable texts and the non-empty hrefs.
PageHrefs(k) == IF k <= 2 THEN Hrefs ELSE Hrefs \ {""}

\* ------------------------------------------------------------ insight parser
\* re.findall(r'\d+', s): left-to-right scan; a match starts at the first
\* digit not yet consumed and extends greedily over the following digits.
RECURSIVE ScanRun(_, _)
ScanRun(s, j) ==
    IF j <= Len(s) /\ s[j] \in Digits THEN ScanRun(s, j + 1) ELSE j

RECURSIVE FindAllFrom(_, _)
FindAllFrom(s, i) ==
    IF i > Len(s) THEN << >>
    ELSE IF s[i] \in Digits
         THEN LET e == ScanRun(s, i)
              IN  <<SubSeq(s, i, e - 1)>> \o FindAllFrom(s, e)
         ELSE FindAllFrom(s, i + 1)

findall(s) == FindAllFrom(s, 1)

\* int(match[0]): base-ten value of a digit string, most significant first.
RECURSIVE int(_)
int(d) ==
    IF Len(d) = 0 THEN 0
    ELSE 10 * int(SubSeq(d, 1, Len(d) - 1)) + DigitValue(d[Len(d)])

\* Variant: a best-effort guess, the first number when there are several.
get_mutual_connection_count_first_match(insight_string) ==
    LET match == findall(insight_string)
    IN  IF Len(match) = 0
        THEN [ok |-> FALSE, exc |-> "InsightParseException", val |-> 0]
        ELSE [ok |-> TRUE, exc |-> "none", val |-> int(match[1])]

get_mutual_connection_count_from_card_insights_text(insight_string) ==
    LET match == findall(insight_string)
    IN  IF Len(match) # 1
        THEN [ok |-> FALSE, exc |-> "InsightParseException", val |-> 0]
        ELSE [ok |-> TRUE, exc |-> "none", val |-> int(match[1])]

\* ---------------------------------------------------------- except clauses
\* except (NoSuchElementException, StaleElementReferenceException,
\*         InvalidSelectorException)
LookupErrors ==
    {"NoSuchElementException", "StaleElementReferenceException",
     "InvalidSelectorException"}

\* except (ElementNotInteractableException, ElementClickInterceptedException,
\*         StaleElementReferenceException, InvalidElementStateException)
ClickErrors ==
    {"ElementNotInteractableException", "ElementClickInterceptedException",
     "StaleElementReferenceException", "InvalidElementStateException"}

\* The except clause that closes send_connect_inline.
GateCaught ==
    {"InsightsNotFoundException", "InsightParseException",
     "LowMutualConnectionsError", "ConnectButtonError", "PopupButtonError"}

\* What leaves send_connect_inline when exc is raised inside its try block.
send_connect_inline_except(exc) ==
    IF exc \in GateCaught THEN "InlineConnectException" ELSE exc

\* The except clause around the inline attempt in get_search_results.
CollectorCaught == {"InlineConnectException"}

\* BrowserClient.find_element: any exception of the driver becomes None.
BrowserClient_find_element(r) ==
    IF r = "found" THEN "found" ELSE "None"

\* ------------------------------------------------------------------- state
VARIABLES
    pc,             \* position of the running call
    try_inline,     \* argument of get_search_results
    n,              \* len(cards)
    i,              \* index of the card the for loop is at (0: none yet)
    cards,          \* per card: what the session answered for that card
    ops,            \* per card: session operations issued for it, in order
    gate,           \* per card: result of send_connect_inline
    cause,          \* per card: exception raised inside send_connect_inline
    profile_links,  \* the accumulated output list
    raised,         \* exception that left get_search_results ("none")
    dialogs,        \* the page: cards whose confirmation dialog is open
    insight_string, \* argument of a direct parser call
    parse_ret,      \* result of a direct parser call
    mpc,            \* position of main ("idle": main is not running)
    to_visit,       \* main: the list of URLs still to visit
    visited,        \* main: the set of URLs processed
    collected,      \* the list browse_profiles returned to main
    navigated,      \* URLs main passed to browser.get, in order
    url,            \* main: the URL being processed
    text,           \* main: what extract_profile_info returned
    sc,             \* send_connect: what the session answered
    sc_ret,         \* send_connect: its result ("none": not called)
    quit_calls      \* number of calls of browser.quit

vars == <<pc, try_inline, n, i, cards, ops, gate, cause, profile_links,
          raised, dialogs, insight_string, parse_ret, mpc, to_visit, visited,
          collected, navigated, url, text, sc, sc_ret, quit_calls>>

Unqueried == "unqueried"

NoAnswer ==
    [insights |-> Unqueried, text_read |-> Unqueried, text |-> << >>,
     connect |-> Unqueried,
     enabled |-> Unqueried, connect_click |-> Unqueried,
     popup |-> Unqueried, popup_owner |-> 0, popup_text |-> Unqueried,
     popup_click |-> Unqueried, link |-> Unqueried, href |-> Unqueried]

NoParse == [ok |-> FALSE, exc |-> "none", val |-> 0]

NoScAnswer ==
    [connect |-> Unqueried, connect_click |-> Unqueried,
     send |-> Unqueried, send_click |-> Unqueried]

mainVars == <<mpc, to_visit, visited, collected, navigated, url, text, sc,
              sc_ret, quit_calls>>

\* main is not running: get_search_results is called on its own.
MainIdle ==
    /\ mpc = "idle"
    /\ to_visit = << >>
    /\ visited = {}
    /\ collected = << >>
    /\ navigated = << >>
    /\ url = ""
    /\ text = {}
    /\ sc = NoScAnswer
    /\ sc_ret = "none"
    /\ quit_calls = 0

Init ==
    /\ pc = "start"
    /\ try_inline \in BOOLEAN
    /\ n = 0
    /\ i = 0
    /\ cards = << >>
    /\ ops = << >>
    /\ gate = << >>
    /\ cause = << >>
    /\ profile_links = << >>
    /\ raised = "none"
    /\ dialogs = {}
    /\ MainIdle
    /\ insight_string = << >>
    /\ parse_ret = NoParse

ParserVarsUnchanged == UNCHANGED <<insight_string, parse_ret>>
MainVarsUnchanged == UNCHANGED mainVars

\* ----------------------------------------------------- collector plumbing
\* Variant: the inline attempt is made whatever try_inline says.
LoopBodyPc_always_inline == "insights"

\* Where the body of the for loop starts for a card.
LoopBodyPc == IF try_inline THEN "insights" ELSE "link_find"

\* The for loop moves to the next card, or the function returns.
NextCard ==
    IF i < n
    THEN /\ i' = i + 1
         /\ pc' = LoopBodyPc
    ELSE /\ i' = i
         /\ pc' = "returned"

Answer(field, value) == cards' = [cards EXCEPT ![i][field] = value]
Issue(op) == ops' = [ops EXCEPT ![i] = Append(@, op)]
Issue2(op1, op2) == ops' = [ops EXCEPT ![i] = Append(Append(@, op1), op2)]

\* exc is raised inside the try block of send_connect_inline for card i.
GateRaises(exc) ==
    LET out == send_connect_inline_except(exc)
    IN  /\ cause' = [cause EXCEPT ![i] = exc]
        /\ gate' = [gate EXCEPT ![i] = out]
        /\ i' = i
        /\ profile_links' = profile_links
        /\ IF out \in CollectorCaught
           THEN /\ pc' = "link_find"
                /\ raised' = raised
           ELSE /\ pc' = "aborted"
                /\ raised' = out

\* ----------------------------------------------------- get_search_results
\* browser.get(search_url); browser.sleep(5); profile_links = []
Navigate ==
    /\ pc = "start"
    /\ pc' = "enumerate"
    /\ profile_links' = << >>
    /\ UNCHANGED <<try_inline, n, i, cards, ops, gate, cause, raised>>
    /\ ParserVarsUnchanged
    /\ MainVarsUnchanged
    /\ UNCHANGED dialogs

\* Variant: the first card is taken before the list is tested for emptiness.
Enumerate_no_empty_check ==
    /\ pc = "enumerate"
    /\ \E k \in 0..MaxCards :
        /\ n' = k
        /\ cards' = [c \in 1..k |-> NoAnswer]
        /\ ops' = [c \in 1..k |-> << >>]
        /\ gate' = [c \in 1..k |-> "none"]
        /\ cause' = [c \in 1..k |-> "none"]
        /\ IF k = 0
           THEN /\ pc' = "aborted"
                /\ i' = 0
                /\ raised' = "IndexError"
           ELSE /\ pc' = LoopBodyPc
                /\ i' = 1
                /\ raised' = raised
    /\ UNCHANGED <<try_inline, profile_links>>
    /\ ParserVarsUnchanged
    /\ MainVarsUnchanged
    /\ UNCHANGED dialogs

\* cards = browser.find_elements(...); if len(cards) == 0: return
Enumerate ==
    /\ pc = "enumerate"
    /\ \E k \in 0..MaxCards :
        /\ n' = k
        /\ cards' = [c \in 1..k |-> NoAnswer]
        /\ ops' = [c \in 1..k |-> << >>]
        /\ gate' = [c \in 1..k |-> "none"]
        /\ cause' = [c \in 1..k |-> "none"]
        /\ IF k = 0
           THEN /\ pc' = "returned"
                /\ i' = 0
           ELSE /\ pc' = LoopBodyPc
                /\ i' = 1
    /\ UNCHANGED <<try_inline, profile_links, raised>>
    /\ ParserVarsUnchanged
    /\ MainVarsUnchanged
    /\ UNCHANGED dialogs

\* ----------------------------------------------------- send_connect_inline
\* Insight texts the session may show on a page of k cards.
InsightTexts(k) ==
    IF k <= 2 THEN ScanTexts \cup ThresholdTexts \cup UnparseableTexts
    ELSE ScanTexts

\* Variant: the lookup failure is not translated.
insights_except_untranslated(r) == r

\* except clause of the insights lookup.
insights_except(r) ==
    IF r \in LookupErrors THEN "InsightsNotFoundException" ELSE r

\* insights_div = card.find_element(...); print(insights_div.text)
FindInsights ==
    /\ pc = "insights"
    /\ \E r \in {"found", "NoSuchElementException"} :
        /\ Answer("insights", r)
        /\ Issue("find_insights")
        /\ IF r = "found"
           THEN /\ pc' = "parse"
                /\ UNCHANGED <<i, gate, cause, profile_links, raised>>
           ELSE GateRaises(insights_except(r))
    /\ UNCHANGED <<try_inline, n>>
    /\ ParserVarsUnchanged
    /\ MainVarsUnchanged
    /\ UNCHANGED dialogs

\* Variant: the threshold is an exclusive floor.
BelowThreshold_exclusive(conn_count) ==
    conn_count <= MIN_MUTUAL_CONNECTIONS_TO_SEND_CONNECT

\* The threshold policy of the gate.
BelowThreshold(conn_count) ==
    conn_count < MIN_MUTUAL_CONNECTIONS_TO_SEND_CONNECT

\* conn_count = get_mutual_connection_count_from_card_insights_text(
\*     insights_div.text); if conn_count < MIN...: raise LowMutualConnectionsError
ReadAndParse ==
    /\ pc = "parse"
    /\ \E a \in {"read", "StaleElementReferenceException"} :
        IF a # "read"
        THEN /\ Answer("text_read", a)
             /\ Issue("read_text")
             /\ GateRaises(a)
        ELSE \E t \in InsightTexts(n) :
             LET r == get_mutual_connection_count_from_card_insights_text(t)
             IN  /\ cards' = [cards EXCEPT ![i].text_read = a, ![i].text = t]
                 /\ Issue2("read_text", "parse")
                 /\ IF ~r.ok
                    THEN GateRaises(r.exc)
                    ELSE IF BelowThreshold(r.val)
                         THEN GateRaises("LowMutualConnectionsError")
                         ELSE /\ pc' = "connect_find"
                              /\ UNCHANGED <<i, gate, cause, profile_links,
                                             raised>>
    /\ UNCHANGED <<try_inline, n>>
    /\ ParserVarsUnchanged
    /\ MainVarsUnchanged
    /\ UNCHANGED dialogs

\* --------------------------------------------------- __send_connect_inline
connect_lookup_except(r) ==
    IF r \in LookupErrors THEN "ConnectButtonError" ELSE r

connect_click_except(r) ==
    IF r \in ClickErrors THEN "ConnectButtonError" ELSE r

popup_lookup_except(r) ==
    IF r \in LookupErrors THEN "PopupButtonError" ELSE r

popup_click_except(r) ==
    IF r \in ClickErrors THEN "PopupButtonError" ELSE r

\* connect_button = card.find_element(...)
FindConnect ==
    /\ pc = "connect_find"
    /\ \E r \in {"found", "NoSuchElementException"} :
        /\ Answer("connect", r)
        /\ Issue("find_connect")
        /\ IF r = "found"
           THEN /\ pc' = "connect_enabled"
                /\ UNCHANGED <<i, gate, cause, profile_links, raised>>
           ELSE GateRaises(connect_lookup_except(r))
    /\ UNCHANGED <<try_inline, n>>
    /\ ParserVarsUnchanged
    /\ MainVarsUnchanged
    /\ UNCHANGED dialogs

\* Variant: the enabled state is read but not acted upon.
IsEnabled_unchecked ==
    /\ pc = "connect_enabled"
    /\ \E r \in {"True", "False", "StaleElementReferenceException"} :
        /\ Answer("enabled", r)
        /\ Issue("is_enabled")
        /\ IF r \in {"True", "False"}
           THEN /\ pc' = "connect_click"
                /\ UNCHANGED <<i, gate, cause, profile_links, raised>>
           ELSE GateRaises(r)
    /\ UNCHANGED <<try_inline, n>>
    /\ ParserVarsUnchanged
    /\ MainVarsUnchanged
    /\ UNCHANGED dialogs

\* if not connect_button.is_enabled(): raise ConnectButtonError
IsEnabled ==
    /\ pc = "connect_enabled"
    /\ \E r \in {"True", "False", "StaleElementReferenceException"} :
        /\ Answer("enabled", r)
        /\ Issue("is_enabled")
        /\ IF r = "True"
           THEN /\ pc' = "connect_click"
                /\ UNCHANGED <<i, gate, cause, profile_links, raised>>
           ELSE IF r = "False"
                THEN GateRaises("ConnectButtonError")
                ELSE GateRaises(r)
    /\ UNCHANGED <<try_inline, n>>
    /\ ParserVarsUnchanged
    /\ MainVarsUnchanged
    /\ UNCHANGED dialogs

\* Variant: a failed connect click is swallowed and the flow goes on.
ClickConnect_swallow ==
    /\ pc = "connect_click"
    /\ \E r \in {"clicked", "ElementClickInterceptedException"} :
        /\ Answer("connect_click", r)
        /\ Issue("click_connect")
        /\ pc' = "popup_find"
        /\ UNCHANGED <<i, gate, cause, profile_links, raised>>
    /\ UNCHANGED <<try_inline, n>>
    /\ ParserVarsUnchanged
    /\ MainVarsUnchanged
    /\ UNCHANGED dialogs

\* connect_button.click()
ClickConnect ==
    /\ pc = "connect_click"
    /\ \E r \in {"clicked", "ElementClickInterceptedException"} :
        /\ Answer("connect_click", r)
        /\ Issue("click_connect")
        /\ IF r = "clicked"
           THEN /\ pc' = "popup_find"
                /\ UNCHANGED <<i, gate, cause, profile_links, raised>>
           ELSE GateRaises(connect_click_except(r))
    /\ UNCHANGED <<try_inline, n>>
    /\ ParserVarsUnchanged
    /\ MainVarsUnchanged
    /\ UNCHANGED dialogs

\* Dialogs whose 'Send without a note' control the page-wide lookup may
\* return while card c is processed: the one its own connect click opened, or
\* one an earlier card left open (followed on pages of up to two cards).
PopupOwners(c) == {c} \cup (IF n <= 2 THEN dialogs ELSE {})

\* popup_button = browser.find_element(...)   (page-wide, through the client)
FindPopup ==
    /\ pc = "popup_find"
    /\ \E d \in {"found", "NoSuchElementException"} :
        \E o \in (IF d = "found" THEN PopupOwners(i) ELSE {0}) :
            /\ cards' = [cards EXCEPT
                             ![i].popup = BrowserClient_find_element(d),
                             ![i].popup_owner = o]
            /\ dialogs' = IF d = "found" THEN dialogs \cup {o} ELSE {}
            /\ Issue("find_popup")
            /\ pc' = "popup_text"
            /\ UNCHANGED <<i, gate, cause, profile_links, raised>>
    /\ UNCHANGED <<try_inline, n>>
    /\ ParserVarsUnchanged
    /\ MainVarsUnchanged

\* print(popup_button.text)
ReadPopupText ==
    /\ pc = "popup_text"
    /\ IF cards[i].popup = "None"
       THEN /\ Answer("popup_text", "AttributeError")
            /\ ops' = ops
            /\ GateRaises(popup_lookup_except("AttributeError"))
       ELSE \E r \in {"read", "StaleElementReferenceException"} :
                /\ Answer("popup_text", r)
                /\ Issue("read_popup_text")
                /\ IF r = "read"
                   THEN /\ pc' = "popup_click"
                        /\ UNCHANGED <<i, gate, cause, profile_links, raised>>
                   ELSE GateRaises(popup_lookup_except(r))
    /\ UNCHANGED <<try_inline, n>>
    /\ ParserVarsUnchanged
    /\ MainVarsUnchanged
    /\ UNCHANGED dialogs

\* Variant: the collector does not `continue` after a successful attempt.
ClickPopup_no_continue ==
    /\ pc = "popup_click"
    /\ \E r \in {"clicked", "ElementClickInterceptedException"} :
        /\ Answer("popup_click", r)
        /\ Issue("click_popup")
        /\ dialogs' = IF r = "clicked"
                      THEN dialogs \ {cards[i].popup_owner} ELSE dialogs
        /\ IF r = "clicked"
           THEN /\ gate' = [gate EXCEPT ![i] = "Sent"]
                /\ pc' = "link_find"
                /\ i' = i
                /\ UNCHANGED <<cause, profile_links, raised>>
           ELSE GateRaises(popup_click_except(r))
    /\ UNCHANGED <<try_inline, n>>
    /\ ParserVarsUnchanged
    /\ MainVarsUnchanged

\* popup_button.click(); return 0   -- and the collector's `continue`
ClickPopup ==
    /\ pc = "popup_click"
    /\ \E r \in {"clicked", "ElementClickInterceptedException"} :
        /\ Answer("popup_click", r)
        /\ Issue("click_popup")
        /\ dialogs' = IF r = "clicked"
                      THEN dialogs \ {cards[i].popup_owner} ELSE dialogs
        /\ IF r = "clicked"
           THEN /\ gate' = [gate EXCEPT ![i] = "Sent"]
                /\ NextCard
                /\ UNCHANGED <<cause, profile_links, raised>>
           ELSE GateRaises(popup_click_except(r))
    /\ UNCHANGED <<try_inline, n>>
    /\ ParserVarsUnchanged
    /\ MainVarsUnchanged

\* ------------------------------------------------ link harvesting (fallback)
\* link_elem = card.find_element(By.XPATH, ".//a[contains(@href, '/in/')]")
FindLink ==
    /\ pc = "link_find"
    /\ \E r \in {"found", "NoSuchElementException"} :
        /\ Answer("link", r)
        /\ Issue("find_link")
        /\ IF r = "found"
           THEN /\ pc' = "link_attr"
                /\ i' = i
                /\ raised' = raised
           ELSE IF r \in LookupErrors
                THEN /\ NextCard
                     /\ raised' = raised
                ELSE /\ pc' = "aborted"
                     /\ i' = i
                     /\ raised' = r
    /\ UNCHANGED <<try_inline, n, gate, cause, profile_links>>
    /\ ParserVarsUnchanged
    /\ MainVarsUnchanged
    /\ UNCHANGED dialogs

InList(x, list) == \E k \in 1..Len(list) : list[k] = x

\* Variant: no membership test before the append.
AppendLink_no_dedup(links, href) ==
    IF href # "" THEN Append(links, href) ELSE links

\* Variant: a new link is inserted at the front.
AppendLink_front(links, href) ==
    IF href # "" /\ ~InList(href, links) THEN <<href>> \o links ELSE links

\* if href and href not in profile_links: profile_links.append(href)
AppendLink(links, href) ==
    IF href # "" /\ ~InList(href, links) THEN Append(links, href) ELSE links

\* href = link_elem.get_attribute("href"); append when new
GetHref ==
    /\ pc = "link_attr"
    /\ \E h \in PageHrefs(n) :
        /\ Answer("href", h)
        /\ Issue("get_href")
        /\ profile_links' = AppendLink(profile_links, h)
        /\ NextCard
    /\ UNCHANGED <<try_inline, n, gate, cause, raised>>
    /\ ParserVarsUnchanged
    /\ MainVarsUnchanged
    /\ UNCHANGED dialogs

Next ==
    \/ Navigate
    \/ Enumerate
    \/ FindInsights
    \/ ReadAndParse
    \/ FindConnect
    \/ IsEnabled
    \/ ClickConnect
    \/ FindPopup
    \/ ReadPopupText
    \/ ClickPopup
    \/ FindLink
    \/ GetHref

Spec == Init /\ [][Next]_vars

\* ------------------------------------------- the parser called on its own
InitParser ==
    /\ pc = "parser_call"
    /\ insight_string \in StringsUpTo(MaxLen)
    /\ parse_ret = NoParse
    /\ try_inline = FALSE
    /\ n = 0
    /\ i = 0
    /\ cards = << >>
    /\ ops = << >>
    /\ gate = << >>
    /\ cause = << >>
    /\ profile_links = << >>
    /\ raised = "none"
    /\ dialogs = {}
    /\ MainIdle

ParserCall ==
    /\ pc = "parser_call"
    /\ parse_ret' =
          get_mutual_connection_count_from_card_insights_text(insight_string)
    /\ pc' = "parser_done"
    /\ UNCHANGED <<try_inline, n, i, cards, ops, gate, cause, profile_links,
                   raised, dialogs, insight_string>>
    /\ MainVarsUnchanged

NextParser == ParserCall

SpecParser == InitParser /\ [][NextParser]_vars
\* ------------------------------------------------------------------- main
\* Keyword groups score_profile looks for in the profile text.
Keywords == {"iit", "company", "role"}

\* score_profile(text): at least two of the three groups are present.
score_profile(profile_text) == Cardinality(profile_text \cap Keywords) >= 2

\* Variant: the handler lets the exception through.
send_connect_except_reraise(exc) == exc

\* except Exception as e: ...; return False   (send_connect)
send_connect_except(exc) == "False"

\* The frame of get_search_results is left: its locals are gone.
ScanFrameDropped ==
    /\ pc' = "not_called"
    /\ n' = 0
    /\ i' = 0
    /\ cards' = << >>
    /\ ops' = << >>
    /\ gate' = << >>
    /\ cause' = << >>
    /\ profile_links' = << >>

InitMain ==
    /\ pc = "not_called"
    /\ try_inline = TRUE
    /\ n = 0
    /\ i = 0
    /\ cards = << >>
    /\ ops = << >>
    /\ gate = << >>
    /\ cause = << >>
    /\ profile_links = << >>
    /\ raised = "none"
    /\ dialogs = {}
    /\ insight_string = << >>
    /\ parse_ret = NoParse
    /\ mpc = "login"
    /\ to_visit = << >>
    /\ visited = {}
    /\ collected = << >>
    /\ navigated = << >>
    /\ url = ""
    /\ text = {}
    /\ sc = NoScAnswer
    /\ sc_ret = "none"
    /\ quit_calls = 0

\* browser = BrowserClient(); input(...); visited = set();
\* browse_profiles(browser, True) is entered
Login ==
    /\ mpc = "login"
    /\ pc = "not_called"
    /\ mpc' = "collect"
    /\ pc' = "start"
    /\ visited' = {}
    /\ UNCHANGED <<try_inline, n, i, cards, ops, gate, cause, profile_links,
                   raised, dialogs, to_visit, collected, navigated, url, text,
                   sc, sc_ret, quit_calls>>
    /\ ParserVarsUnchanged

\* to_visit = browse_profiles(browser, True)
CollectReturns ==
    /\ mpc = "collect"
    /\ pc = "returned"
    /\ to_visit' = profile_links
    /\ collected' = profile_links
    /\ ScanFrameDropped
    /\ mpc' = "loop"
    /\ UNCHANGED <<try_inline, raised, dialogs, visited, navigated, url, text,
                   sc, sc_ret, quit_calls>>
    /\ ParserVarsUnchanged

\* browse_profiles raised: nothing in main catches, the exception leaves main
CollectRaises ==
    /\ mpc = "collect"
    /\ pc = "aborted"
    /\ ScanFrameDropped
    /\ mpc' = "crashed"
    /\ UNCHANGED <<try_inline, raised, dialogs, to_visit, visited, collected,
                   navigated, url, text, sc, sc_ret, quit_calls>>
    /\ ParserVarsUnchanged

\* Variant: the head of the list is read but not removed.
VisitNext_no_pop ==
    /\ mpc = "loop"
    /\ to_visit # << >>
    /\ LET u == Head(to_visit)
       IN  /\ to_visit' = to_visit
           /\ url' = u
           /\ IF u \in visited
              THEN /\ mpc' = "loop"
                   /\ UNCHANGED <<navigated, dialogs>>
              ELSE /\ mpc' = "extract"
                   /\ navigated' = Append(navigated, u)
                   /\ dialogs' = {}
    /\ text' = {}
    /\ sc' = NoScAnswer
    /\ sc_ret' = "none"
    /\ UNCHANGED <<pc, try_inline, n, i, cards, ops, gate, cause,
                   profile_links, raised, visited, collected, quit_calls>>
    /\ ParserVarsUnchanged

\* while to_visit: url = to_visit.pop(0); if url in visited: continue;
\* browser.get(url); browser.sleep(5)
VisitNext ==
    /\ mpc = "loop"
    /\ to_visit # << >>
    /\ LET u == Head(to_visit)
       IN  /\ to_visit' = Tail(to_visit)
           /\ url' = u
           /\ IF u \in visited
              THEN /\ mpc' = "loop"
                   /\ UNCHANGED <<navigated, dialogs>>
              ELSE /\ mpc' = "extract"
                   /\ navigated' = Append(navigated, u)
                   /\ dialogs' = {}
    /\ text' = {}
    /\ sc' = NoScAnswer
    /\ sc_ret' = "none"
    /\ UNCHANGED <<pc, try_inline, n, i, cards, ops, gate, cause,
                   profile_links, raised, visited, collected, quit_calls>>
    /\ ParserVarsUnchanged

\* text = extract_profile_info(browser); if score_profile(text): ...
ExtractProfileInfo ==
    /\ mpc = "extract"
    /\ \E e \in {"read", "Exception"} :
        \E t \in SUBSET Keywords :
            /\ text' = IF e = "read" THEN t ELSE {}
            /\ mpc' = IF score_profile(text') THEN "sc_find_connect" ELSE "mark"
    /\ UNCHANGED <<pc, try_inline, n, i, cards, ops, gate, cause,
                   profile_links, raised, dialogs, to_visit, visited,
                   collected, navigated, url, sc, sc_ret, quit_calls>>
    /\ ParserVarsUnchanged

ScFrame ==
    /\ UNCHANGED <<pc, try_inline, n, i, cards, ops, gate, cause,
                   profile_links, raised, dialogs, to_visit, visited,
                   collected, navigated, url, text, quit_calls>>
    /\ ParserVarsUnchanged

\* connect_button = browser.find_element(...); if connect_button: ...
\* return False
SC_FindConnect ==
    /\ mpc = "sc_find_connect"
    /\ \E d \in {"found", "NoSuchElementException"} :
        LET r == BrowserClient_find_element(d)
        IN  /\ sc' = [sc EXCEPT !.connect = r]
            /\ IF r = "found"
               THEN /\ mpc' = "sc_click_connect"
                    /\ sc_ret' = sc_ret
               ELSE /\ mpc' = "mark"
                    /\ sc_ret' = "False"
    /\ ScFrame

\* connect_button.click(); browser.sleep(1)
SC_ClickConnect ==
    /\ mpc = "sc_click_connect"
    /\ \E r \in {"clicked", "ElementClickInterceptedException"} :
        /\ sc' = [sc EXCEPT !.connect_click = r]
        /\ IF r = "clicked"
           THEN /\ mpc' = "sc_find_send"
                /\ sc_ret' = sc_ret
           ELSE /\ mpc' = "mark"
                /\ sc_ret' = send_connect_except(r)
    /\ ScFrame

\* send_button = browser.find_element(...); if send_button: ...
\* return False
SC_FindSend ==
    /\ mpc = "sc_find_send"
    /\ \E d \in {"found", "NoSuchElementException"} :
        LET r == BrowserClient_find_element(d)
        IN  /\ sc' = [sc EXCEPT !.send = r]
            /\ IF r = "found"
               THEN /\ mpc' = "sc_click_send"
                    /\ sc_ret' = sc_ret
               ELSE /\ mpc' = "mark"
                    /\ sc_ret' = "False"
    /\ ScFrame

\* send_button.click(); browser.sleep(1); return True
SC_ClickSend ==
    /\ mpc = "sc_click_send"
    /\ \E r \in {"clicked", "ElementClickInterceptedException"} :
        /\ sc' = [sc EXCEPT !.send_click = r]
        /\ mpc' = "mark"
        /\ sc_ret' = IF r = "clicked" THEN "True" ELSE send_connect_except(r)
    /\ ScFrame

\* visited.add(url); browser.sleep(10)
MarkVisited ==
    /\ mpc = "mark"
    /\ visited' = visited \cup {url}
    /\ mpc' = "loop"
    /\ UNCHANGED <<pc, try_inline, n, i, cards, ops, gate, cause,
                   profile_links, raised, dialogs, to_visit, collected, navigated,
                   url, text, sc, sc_ret, quit_calls>>
    /\ ParserVarsUnchanged

\* print("now ending browser session"); browser.quit()
Quit ==
    /\ mpc = "loop"
    /\ to_visit = << >>
    /\ quit_calls' = quit_calls + 1
    /\ mpc' = "exited"
    /\ UNCHANGED <<pc, try_inline, n, i, cards, ops, gate, cause,
                   profile_links, raised, dialogs, to_visit, visited,
                   collected, navigated, url, text, sc, sc_ret>>
    /\ ParserVarsUnchanged

NextMain ==
    \/ Login
    \/ Navigate
    \/ Enumerate
    \/ FindInsights
    \/ ReadAndParse
    \/ FindConnect
    \/ IsEnabled
    \/ ClickConnect
    \/ FindPopup
    \/ ReadPopupText
    \/ ClickPopup
    \/ FindLink
    \/ GetHref
    \/ CollectReturns
    \/ CollectRaises
    \/ VisitNext
    \/ ExtractProfileInfo
    \/ SC_FindConnect
    \/ SC_ClickConnect
    \/ SC_FindSend
    \/ SC_ClickSend
    \/ MarkVisited
    \/ Quit

SpecMain == InitMain /\ [][NextMain]_vars

\* ------------------------------------------------ what a failure reports
\* raise InlineConnectException("Could not send inline connect"), raised
\* while exc is being handled (exc becomes its implicit __context__).
InlineConnectException_raised(exc) ==
    [kind |-> "InlineConnectException",
     args |-> "Could not send inline connect",
     context |-> exc]

\* str(e) of an exception: its message.
str_of(e) == e.args

\* print(f"Error in inline connect: {e}")
CollectorLog(e) == <<"Error in inline connect: ", str_of(e)>>

\* ================================================================= claims
Stale == "StaleElementReferenceException"

Has(seq, x) == \E k \in 1..Len(seq) : seq[k] = x

IsPrefix(a, b) == Len(a) <= Len(b) /\ SubSeq(b, 1, Len(a)) = a

\* No element of card c went stale between its lookup and its use.
NoStaleUse(c) ==
    /\ cards[c].text_read # Stale
    /\ cards[c].enabled # Stale
    /\ cards[c].popup_text # Stale

\* The operations of gate and actuator, in the order the code issues them.
GateOrder ==
    <<"find_insights", "read_text", "parse", "find_connect", "is_enabled",
      "click_connect", "find_popup", "read_popup_text", "click_popup">>

ActuatorOps ==
    {"find_connect", "is_enabled", "click_connect", "find_popup",
     "read_popup_text", "click_popup"}

Clicks == {"click_connect", "click_popup"}

\* send_connect_inline has called __send_connect_inline for card c.
ActuatorInvoked(c) ==
    \/ Has(ops[c], "find_connect")
    \/ (c = i /\ pc = "connect_find")

\* C1: get_search_results never aborts on a single-card failure: whatever
\* the cards answer (here even when no element goes stale between lookup and
\* use), the call never ends by raising, and when it has returned every card
\* was processed, once, in document order.
C1_ScanNeverAborts ==
    (\A c \in 1..n : NoStaleUse(c)) =>
        /\ pc # "aborted"
        /\ raised = "none"
        /\ (pc = "returned" => i = n /\ \A c \in 1..n : ops[c] # << >>)

\* C2: when the connect control was found, enabled and clicked and the
\* page-wide lookup of 'Send without a note' yields the absent result, the
\* actuator fails with PopupButtonError and the gate reports
\* InlineConnectException.
C2_AbsentPopupIsPopupButtonError ==
    \A c \in 1..n :
        (cards[c].connect_click = "clicked" /\ cards[c].popup = "None"
            /\ cards[c].popup_text # Unqueried)
        => (cause[c] = "PopupButtonError" /\ gate[c] = "InlineConnectException")

\* C3: the gate invokes the actuator if and only if the insights region was
\* found, its text parsed to a single count and that count is at least 10;
\* a count of 9 is reported as LowMutualConnections with no click, a count
\* of 10 proceeds to the actuator.
C3_GateThreshold ==
    \A c \in 1..n :
        LET r == get_mutual_connection_count_from_card_insights_text(
                     cards[c].text)
        IN  /\ ActuatorInvoked(c) <=>
                  (cards[c].insights = "found" /\ cards[c].text_read = "read"
                      /\ r.ok /\ r.val >= 10)
            /\ (cards[c].text_read = "read" /\ cards[c].text = <<"9">>) =>
                  (cause[c] = "LowMutualConnectionsError"
                      /\ gate[c] = "InlineConnectException"
                      /\ \A o \in Clicks : ~Has(ops[c], o))
            /\ (cards[c].text_read = "read" /\ cards[c].text = <<"1", "0">>) =>
                  ActuatorInvoked(c)

\* A two-card page: the first card shows 9 and was refused without a click,
\* the second shows 10 and its connect control was clicked.
C3_Witness ==
    /\ n = 2
    /\ cards[1].text = <<"9">> /\ cause[1] = "LowMutualConnectionsError"
    /\ cards[2].text = <<"1", "0">> /\ Has(ops[2], "click_connect")

\* C4: the gate's checks run in the order insights lookup, parse, threshold,
\* actuator: the gate and actuator operations issued for a card are always a
\* prefix of that order, and a card with no insights region is reported as
\* InsightsNotFound with no text read, no parse, no connect or popup lookup
\* and no click.
C4_GateOrdering ==
    \A c \in 1..n :
        /\ IsPrefix(SelectSeq(ops[c], LAMBDA o : o \notin {"find_link", "get_href"}),
                    GateOrder)
        /\ cards[c].insights \in LookupErrors =>
              /\ cause[c] = "InsightsNotFoundException"
              /\ gate[c] = "InlineConnectException"
              /\ \A o \in {"read_text", "parse"} \cup ActuatorOps :
                    ~Has(ops[c], o)
              /\ cards[c].connect = Unqueried
              /\ cards[c].popup = Unqueried

\* A card without insights region, after a card that went through the actuator,
\* whose fallback link was harvested.
C4_Witness ==
    /\ n >= 2
    /\ Has(ops[1], "click_popup")
    /\ cards[2].insights = "NoSuchElementException"
    /\ Has(ops[2], "get_href")

\* C5: a connect control that is present but disabled gives ConnectButtonError
\* without a click and without the page-wide popup lookup; the popup lookup
\* happens only after a successful connect click.
C5_DisabledNeverReachesPopup ==
    \A c \in 1..n :
        /\ cards[c].enabled = "False" =>
              /\ cause[c] = "ConnectButtonError"
              /\ gate[c] = "InlineConnectException"
              /\ \A o \in Clicks \cup {"find_popup", "read_popup_text"} :
                    ~Has(ops[c], o)
        /\ Has(ops[c], "find_popup") =>
              /\ cards[c].connect_click = "clicked"
              /\ \E a, b \in 1..Len(ops[c]) :
                    a < b /\ ops[c][a] = "click_connect"
                          /\ ops[c][b] = "find_popup"

\* A disabled connect control on one card and a popup lookup on another.
C5_Witness ==
    /\ n >= 2
    /\ cards[1].enabled = "False" /\ cause[1] = "ConnectButtonError"
    /\ Has(ops[2], "find_popup")
\* Positions at which a maximal run of digits starts.
RunStarts(s) ==
    {k \in 1..Len(s) : s[k] \in Digits /\ (k = 1 \/ s[k - 1] \notin Digits)}

DigitPositions(s) == {k \in 1..Len(s) : s[k] \in Digits}

Max(S) == CHOOSE x \in S : \A y \in S : y <= x
Min(S) == CHOOSE x \in S : \A y \in S : x <= y

RECURSIVE Pow10(_)
Pow10(e) == IF e = 0 THEN 1 ELSE 10 * Pow10(e - 1)

RECURSIVE WeightedSum(_, _, _)
WeightedSum(s, P, top) ==
    IF P = {} THEN 0
    ELSE LET x == CHOOSE y \in P : TRUE
         IN  DigitValue(s[x]) * Pow10(top - x) + WeightedSum(s, P \ {x}, top)

\* Positional value of the digits of s, read as one decimal numeral.
RunValue(s) ==
    LET P == DigitPositions(s)
    IN  IF P = {} THEN 0 ELSE WeightedSum(s, P, Max(P))

NoDup(seq) == \A a, b \in 1..Len(seq) : a # b => seq[a] # seq[b]

\* Cards whose harvested profile link is the URL u.
Yielders(u) == {c \in 1..n : Has(ops[c], "get_href") /\ cards[c].href = u}

\* The output holds each harvested URL once, ordered by the first card that
\* yielded it.
LinksInFirstSeenOrder ==
    /\ NoDup(profile_links)
    /\ \A a \in 1..Len(profile_links) : Yielders(profile_links[a]) # {}
    /\ \A a, b \in 1..Len(profile_links) :
          a < b => Min(Yielders(profile_links[a])) < Min(Yielders(profile_links[b]))
    /\ \A c \in 1..n :
          (Has(ops[c], "get_href") /\ cards[c].href # "")
              => Has(profile_links, cards[c].href)

\* C7: at every point of get_search_results profile_links holds no URL twice
\* and is only ever extended at its end; a URL yielded by two cards is held
\* once, at the position of the first card that yielded it.
C7_UniqueAppendOnly ==
    [][IsPrefix(profile_links, profile_links') /\ LinksInFirstSeenOrder']_vars

\* Cards 1 and 3 yielded the same URL, card 2 another one.
C7_Witness ==
    /\ n = 3 /\ pc = "returned"
    /\ cards[1].href = "/in/a" /\ cards[2].href = "/in/b"
    /\ cards[3].href = "/in/a"
    /\ profile_links = <<"/in/a", "/in/b">>

\* C8: a card for which send_connect_inline succeeded appends nothing and its
\* profile link is never looked up; every other card appends at most one URL:
\* each entry of the output is the link of its own card, which was not Sent.
C8_SentContributesNothing ==
    /\ \A c \in 1..n :
          /\ gate[c] = "Sent" =>
                /\ cards[c].link = Unqueried /\ cards[c].href = Unqueried
                /\ \A o \in {"find_link", "get_href"} : ~Has(ops[c], o)
          /\ Cardinality({k \in 1..Len(ops[c]) : ops[c][k] = "get_href"}) <= 1
    /\ \A a \in 1..Len(profile_links) :
          \E c \in 1..n : gate[c] # "Sent" /\ cards[c].href = profile_links[a]
    /\ Len(profile_links) <=
          Cardinality({c \in 1..n : gate[c] # "Sent" /\ Has(ops[c], "get_href")})

\* A Sent card followed by a card that failed inline and was harvested.
C8_Witness ==
    /\ n = 2 /\ pc = "returned"
    /\ gate[1] = "Sent" /\ gate[2] = "InlineConnectException"
    /\ profile_links = <<"/in/a">>

\* Sent, as decided by the answers of the session alone.
SentByAnswers(c) ==
    /\ try_inline
    /\ cards[c].insights = "found" /\ cards[c].text_read = "read"
    /\ Cardinality(RunStarts(cards[c].text)) = 1
    /\ RunValue(cards[c].text) >= 10
    /\ cards[c].connect = "found" /\ cards[c].enabled = "True"
    /\ cards[c].connect_click = "clicked"
    /\ cards[c].popup = "found" /\ cards[c].popup_text = "read"
    /\ cards[c].popup_click = "clicked"

\* The profile link a card offers to the output ("" when it offers none).
Candidate(c) ==
    IF ~SentByAnswers(c) /\ cards[c].link = "found" /\ cards[c].href \in Hrefs
    THEN cards[c].href ELSE ""

\* Cards that offer a URL no earlier card offers.
FirstOccurrences ==
    {c \in 1..n : Candidate(c) # "" /\ \A d \in 1..(c - 1) : Candidate(d) # Candidate(c)}

RECURSIVE InOrder(_)
InOrder(S) ==
    IF S = {} THEN << >> ELSE <<Candidate(Min(S))>> \o InOrder(S \ {Min(S)})

ReferenceResult == InOrder(FirstOccurrences)

\* The three-card scenario: A shows 15 and its flow works, B shows 5 and has
\* the link /in/b, C has neither insights region nor profile link.
Scenario3 ==
    /\ try_inline /\ n = 3
    /\ cards[1].text = <<"1", "5">> /\ cards[1].popup_click = "clicked"
    /\ cards[2].text = <<"5">> /\ cards[2].href = "/in/b"
    /\ cards[3].insights = "NoSuchElementException"
    /\ cards[3].link = "NoSuchElementException"

C10_GateResultKinds ==
    \A c \in 1..n :
        NoStaleUse(c) => gate[c] \in {"none", "Sent", "InlineConnectException"}

\* Card c failed inline with one of the five causes.
FailedInline(c) == gate[c] = "InlineConnectException" /\ cause[c] \in GateCaught

\* C11: the umbrella failure the gate returns and the record the collector
\* logs for it carry the cause: two cards that failed for different causes
\* are reported with different messages and different log records.
C11_ReportCarriesCause ==
    \A c, d \in 1..n :
        (FailedInline(c) /\ FailedInline(d) /\ cause[c] # cause[d]) =>
            LET ec == InlineConnectException_raised(cause[c])
                ed == InlineConnectException_raised(cause[d])
            IN  /\ str_of(ec) # str_of(ed)
                /\ CollectorLog(ec) # CollectorLog(ed)

Count(seq, x) == Cardinality({k \in 1..Len(seq) : seq[k] = x})

\* C13: with try_inline false get_search_results never calls the gate and
\* performs no click: every card goes straight to link harvesting and the
\* only operations issued for it are the read-only link lookup and href read.
C13_NoInlineNoClick ==
    ~try_inline =>
        /\ pc \in {"start", "enumerate", "link_find", "link_attr", "returned"}
        /\ \A c \in 1..n :
              /\ gate[c] = "none" /\ cause[c] = "none"
              /\ IsPrefix(ops[c], <<"find_link", "get_href">>)
              /\ c < i => Has(ops[c], "find_link")

\* A scan without inline attempts has returned two links.
C13_Witness ==
    /\ ~try_inline /\ pc = "returned" /\ n = 2
    /\ profile_links = <<"/in/b", "/in/a">>

\* C14: when the enumeration finds zero cards the call returns the empty
\* sequence without raising and without any gate call, link lookup or click.
C14_EmptyPage ==
    (n = 0 /\ pc \notin {"start", "enumerate", "not_called"}) =>
        /\ pc = "returned"
        /\ profile_links = << >>
        /\ raised = "none"
        /\ cards = << >> /\ ops = << >> /\ gate = << >>

\* The scan of a page without cards has returned.
C14_Witness ==
    /\ try_inline /\ n = 0 /\ pc = "returned" /\ profile_links = << >>

\* C15: per card the actuator performs at most one connect click and at most
\* one confirmation click, the confirmation click only after a successful
\* connect click; the card is Sent if and only if both clicks were performed
\* without an interaction failure.
C15_ClickDiscipline ==
    \A c \in 1..n :
        LET connect_clicks == {k \in 1..Len(ops[c]) : ops[c][k] = "click_connect"}
            popup_clicks == {k \in 1..Len(ops[c]) : ops[c][k] = "click_popup"}
        IN  /\ Cardinality(connect_clicks) <= 1
            /\ Cardinality(popup_clicks) <= 1
            /\ popup_clicks # {} =>
                  /\ cards[c].connect_click = "clicked"
                  /\ \E a \in connect_clicks : \A b \in popup_clicks : a < b
            /\ gate[c] = "Sent" <=>
                  (cards[c].connect_click = "clicked"
                      /\ cards[c].popup_click = "clicked")

\* One card was Sent with both clicks, another stopped after a confirmation
\* click that failed.
C15_Witness ==
    /\ n = 2
    /\ gate[1] = "Sent" /\ ops[1][Len(ops[1])] = "click_popup"
    /\ cards[2].popup_click = "ElementClickInterceptedException"
    /\ gate[2] = "InlineConnectException"

\* Step 2 of the actuator failed for card c after its connect click fired.
Step2Failed(c) ==
    /\ cards[c].connect_click = "clicked"
    /\ \/ cards[c].popup_text \notin {Unqueried, "read"}
       \/ cards[c].popup_click \notin {Unqueried, "clicked"}

\* C16: when step 2 fails after the connect click has fired, nothing is
\* retried or undone for the card (its operations end with the failed step
\* and the link harvest), the card is reported as InlineConnectException and
\* its profile link is still harvested.
C16_HalfInitiatedStillHarvested ==
    \A c \in 1..n :
        Step2Failed(c) =>
            /\ gate[c] = "InlineConnectException"
            /\ cause[c] = "PopupButtonError"
            /\ Count(ops[c], "click_connect") = 1
            /\ pc # "aborted"
            /\ (c < i \/ pc = "returned") => Has(ops[c], "find_link")

\* C17: the confirmation control clicked while a card is processed belongs
\* to the dialog that card's own connect click opened, also when an earlier
\* card's step 2 failed and left its dialog on the page: no card is reported
\* Sent by confirming another card's dialog.
C17_ConfirmsOwnDialog ==
    \A c \in 1..n :
        (cards[c].popup_click = "clicked" \/ gate[c] = "Sent")
            => cards[c].popup_owner = c

\* C12: every run of main releases the session: when main is over, by its
\* normal end or by an exception leaving it, browser.quit has been called
\* exactly once.  Stated for the runs whose collection ended in
\* AttributeError.
C12_QuitOnEveryExit ==
    (mpc \in {"exited", "crashed"} /\ raised \in {"none", "AttributeError"})
        => quit_calls = 1

Range(seq) == {seq[k] : k \in 1..Len(seq)}

\* Position of main inside one iteration of the visit loop, counted down to
\* the loop head.
Rank(p) ==
    CASE p = "loop" -> 0
      [] p = "mark" -> 1
      [] p = "sc_click_send" -> 2
      [] p = "sc_find_send" -> 3
      [] p = "sc_click_connect" -> 4
      [] p = "sc_find_connect" -> 5
      [] p = "extract" -> 6
      [] OTHER -> 0

LoopPcs ==
    {"loop", "mark", "sc_click_send", "sc_find_send", "sc_click_connect",
     "sc_find_connect", "extract"}

Measure(list, p) == 7 * Len(list) + Rank(p)

C18_Step ==
    /\ mpc \in LoopPcs =>
        \/ mpc' = "exited" /\ to_visit = << >>
        \/ mpc' \in LoopPcs /\ Measure(to_visit', mpc') < Measure(to_visit, mpc)
    /\ (mpc = "loop" /\ to_visit # << >> /\ Head(to_visit) \in visited)
        => navigated' = navigated /\ mpc' = "loop"
    /\ navigated' # navigated =>
        /\ navigated' = Append(navigated, url')
        /\ ~Has(navigated, url')
        /\ Has(collected, url')
        /\ url' \notin visited
    /\ visited' # visited =>
        /\ mpc = "mark"
        /\ visited' = visited \cup {url}
        /\ Has(navigated, url)
        /\ score_profile(text) => sc_ret # "none"
    /\ mpc' = "exited" =>
        /\ NoDup(navigated')
        /\ Range(navigated') = Range(collected')
        /\ visited' = Range(collected')
        /\ to_visit' = << >>

ScAllSucceeded ==
    /\ sc.connect = "found"
    /\ sc.connect_click = "clicked"
    /\ sc.send = "found"
    /\ sc.send_click = "clicked"

\* C19: send_connect never raises and returns True exactly when the Connect
\* button was found and clicked and the Send button was found and clicked;
\* in every other case, a fired Connect click followed by a missing Send
\* button included, it returns False.
C19_SendConnectResult ==
    /\ sc_ret \in {"none", "True", "False"}
    /\ sc_ret = "True" <=> ScAllSucceeded
    /\ (mpc = "mark" /\ score_profile(text)) => sc_ret \in {"True", "False"}
    /\ (sc.connect_click = "clicked" /\ sc.send = "None") => sc_ret = "False"
    /\ sc.connect = "None" => sc_ret = "False"
    /\ sc.connect_click \in ClickErrors => sc_ret = "False"
    /\ sc.send_click \in ClickErrors => sc_ret = "False"

C19_Witness ==
    /\ mpc = "mark"
    /\ sc.connect_click = "clicked"
    /\ sc.send = "None"
    /\ sc_ret = "False"
====
